---- MODULE Spec2Model ----
(***************************************************************************)
(* Orbit: the service worker of a tab-session manager (src/background.js). *)
(* The model covers the message handlers of the service worker, the two    *)
(* keys they keep in chrome.storage.local and the tabs of the current      *)
(* window.  Every await of a handler is one step of a process, so that the *)
(* handlers of two messages interleave exactly at the awaits.              *)
(* A call of chrome.tabs.create or chrome.tabs.remove can be rejected by   *)
(* the host; the calls of chrome.storage.local are taken to resolve.       *)
(* Spec lets the handlers interleave, SpecSeq lets a message arrive only   *)
(* after the response to the one before, and adds the export file of the   *)
(* popup and the import messages of other files.  SpecPopup opens the      *)
(* popup (src/popup.js) on a store and a window.  Every handler keeps the  *)
(* store and the window it started from (preStorage, preWindow) and the    *)
(* log of its host calls, so that its effect can be stated on the          *)
(* response.                                                               *)
(***************************************************************************)
EXTENDS Integers, Sequences, FiniteSets, TLC

\* ------------------------------------------------------------------------
\* Bounds
\* ------------------------------------------------------------------------
\* number of messages the service worker receives in a behaviour
MaxOps == 2
\* the largest id the host gives a tab in a behaviour
MaxTabId == 5
\* the largest number of tabs of a session the popup finds stored
MaxStored == 2
\* the largest number of tabs of the window the popup is opened in
MaxLive == 2
\* the largest number of tabs of a list the filter is applied to on its own
MaxProbe == 2

\* the message handlers that can be in flight at the same time
Procs == {1, 2}

\* ------------------------------------------------------------------------
\* JavaScript values: a string is the sequence of its characters
\* ------------------------------------------------------------------------
Str(chars) == [t |-> "string", s |-> chars]
Undefined == [t |-> "undefined", s |-> <<>>]
Null == [t |-> "null", s |-> <<>>]

\* !v of JavaScript, for the kinds of value the model holds
Falsy(v) == v.t \in {"undefined", "null"} \/ (v.t = "string" /\ v.s = <<>>)

\* typeof of a value of kind t: arrays and null are "object"
Typeof(t) == IF t \in {"object", "array", "null"} THEN "object" ELSE t

\* String.prototype.startsWith
startsWith(s, prefix) ==
  /\ Len(s) >= Len(prefix)
  /\ SubSeq(s, 1, Len(prefix)) = prefix

IsSpace(c) == c = " "

\* String.prototype.trim
RECURSIVE trimStart(_)
trimStart(s) ==
  IF s # <<>> /\ IsSpace(Head(s)) THEN trimStart(Tail(s)) ELSE s

RECURSIVE trimEnd(_)
trimEnd(s) ==
  IF s # <<>> /\ IsSpace(s[Len(s)]) THEN trimEnd(SubSeq(s, 1, Len(s) - 1)) ELSE s

\* (variant: the name is stored as typed)
trim_none(s) == s

trim(s) == trimEnd(trimStart(s))

P_chrome == <<"c", "h", "r", "o", "m", "e", ":", "/", "/">>
P_chrome_extension == <<"c", "h", "r", "o", "m", "e", "-", "e", "x", "t", "e", "n", "s", "i", "o", "n", ":", "/", "/">>
P_about == <<"a", "b", "o", "u", "t", ":">>
P_edge == <<"e", "d", "g", "e", ":", "/", "/">>
P_brave == <<"b", "r", "a", "v", "e", ":", "/", "/">>
P_javascript == <<"j", "a", "v", "a", "s", "c", "r", "i", "p", "t", ":">>
P_data == <<"d", "a", "t", "a", ":">>

\* (variant: the list without the browser's own scheme)
blocked_noChrome == {P_chrome_extension, P_about, P_edge, P_brave, P_javascript, P_data}

blocked == {P_chrome, P_chrome_extension, P_about, P_edge, P_brave, P_javascript, P_data}

\* (variant: without the test for an empty URL)
isSafeUrl_noEmptyTest(url) ==
  IF Typeof(url.t) # "string" THEN FALSE
  ELSE ~ \E prefix \in blocked : startsWith(url.s, prefix)

isSafeUrl(url) ==
  IF Falsy(url) \/ Typeof(url.t) # "string" THEN FALSE
  ELSE ~ \E prefix \in blocked : startsWith(url.s, prefix)

\* ------------------------------------------------------------------------
\* The values the model draws its inputs from
\* ------------------------------------------------------------------------
UrlA == Str(<<"h", "t", "t", "p", "s", ":", "/", "/", "a", ".", "c", "o", "m">>)
UrlB == Str(<<"h", "t", "t", "p", "s", ":", "/", "/", "b", ".", "c", "o", "m">>)
UrlC == Str(<<"h", "t", "t", "p", "s", ":", "/", "/", "c", ".", "c", "o", "m">>)
UrlSettings == Str(<<"c", "h", "r", "o", "m", "e", ":", "/", "/", "s", "e", "t", "t", "i", "n", "g", "s">>)
UrlData == Str(<<"d", "a", "t", "a", ":", "x">>)

TitleT == Str(<<"T">>)
NoTitle == Str(<<>>)

NameWork == Str(<<"W", "o", "r", "k">>)
NameHome == Str(<<"H">>)
NamePadded == Str(<<" ", "H", " ">>)
NameNew == Str(<<"N", " ">>)
NameBlank == Str(<<" ">>)

\* session ids that reach the store from an import file
ExternalIds == {"x1", "x2"}
\* the ids crypto.randomUUID() returns, in the order it returns them
UuidPool == <<"u1", "u2", "u3", "u4", "u5">>
\* an id no session ever has
MissingId == "zz"

Tab(url, title) == [url |-> url, title |-> title]
LiveTab(id, url, title) == [id |-> id, url |-> url, title |-> title]

\* the windows the user can have open when the first message arrives
InitWindows ==
  { <<LiveTab(1, UrlA, TitleT), LiveTab(2, UrlSettings, NoTitle)>>,
    <<LiveTab(1, UrlSettings, TitleT)>> }

\* a session record as an import file carries it: every field with its
\* JavaScript type (t) and, where the type is the expected one, its value (v)
Incoming(kind, id, name, createdAt, tabs) ==
  [kind |-> kind, id |-> id, name |-> name, createdAt |-> createdAt, tabs |-> tabs]
Field(t, v) == [t |-> t, v |-> v]
GoodRecord(id, name, createdAt, tabs) ==
  Incoming("object", Field("string", id), Field("string", name.s),
           Field("number", createdAt), Field("array", tabs))
Entry(key, value) == [key |-> key, value |-> value]
\* message.data: its own type, the type of data.sessions and the entries of
\* data.sessions in the order Object.entries yields them
Data(t, st, entries) == [t |-> t, st |-> st, entries |-> entries]
NoData == Data("undefined", "undefined", <<>>)

Payloads ==
  { Data("object", "object",
      << Entry("x1", GoodRecord("x1", NameWork, 1, <<Tab(UrlA, TitleT), Tab(UrlB, TitleT), Tab(UrlC, TitleT)>>)) >>),
    Data("object", "object",
      << Entry("x1", GoodRecord("x1", NameHome, 2, <<Tab(UrlC, TitleT)>>)),
         Entry("x2", GoodRecord("x2", NameHome, 2, <<Tab(UrlB, TitleT), Tab(UrlSettings, NoTitle)>>)) >>),
    Data("object", "object",
      << Entry("x2", GoodRecord("x2", NameWork, 1, <<>>)) >>),
    Data("object", "undefined", <<>>) }

\* Other values message.data can have. The popup sends what JSON.parse made of
\* the chosen file: a record can be null or a number, a field can have any
\* type, data.sessions can be null or an array, and the id inside a record
\* need not be the key it is filed under. Other callers of the listener can
\* send no data at all, data that is no object or sessions that is a string.
NonObject(kind) ==
  Incoming(kind, Field("undefined", ""), Field("undefined", <<>>),
           Field("undefined", 0), Field("undefined", <<>>))
NullRecord == NonObject("null")
MixedEntries ==
  << Entry("x1", GoodRecord("x1", NameHome, 2, <<Tab(UrlC, TitleT)>>)),
     Entry("b1", Incoming("object", Field("number", "7"), Field("string", NameHome.s),
                          Field("number", 2), Field("array", <<>>))),
     Entry("b2", Incoming("object", Field("string", "b2"), Field("undefined", <<>>),
                          Field("number", 2), Field("array", <<>>))),
     Entry("b3", Incoming("object", Field("string", "b3"), Field("string", NameHome.s),
                          Field("string", 0), Field("array", <<>>))),
     Entry("b4", Incoming("object", Field("string", "b4"), Field("string", NameHome.s),
                          Field("number", 2), Field("object", <<>>))),
     Entry("b5", NonObject("number")),
     Entry("x2", GoodRecord("x2", NameWork, 1, <<Tab(UrlB, TitleT)>>)) >>
FilePayloads ==
  { Data("object", "object", MixedEntries),
    Data("object", "object",
      << Entry("x1", NullRecord),
         Entry("x2", GoodRecord("x2", NameWork, 1, <<Tab(UrlB, TitleT)>>)) >>),
    Data("object", "object",
      << Entry("x1", GoodRecord("x2", NameHome, 2, <<Tab(UrlC, TitleT)>>)),
         Entry("x2", GoodRecord("x2", NameWork, 1, <<Tab(UrlB, TitleT)>>)) >>),
    Data("object", "null", <<>>),
    Data("object", "array",
      << Entry("0", GoodRecord("x2", NameWork, 1, <<Tab(UrlB, TitleT)>>)) >>),
    Data("object", "string", <<>>),
    Data("string", "undefined", <<>>),
    Data("null", "undefined", <<>>),
    NoData }

\* ------------------------------------------------------------------------
\* State
\* ------------------------------------------------------------------------
VARIABLES
  storage,     \* chrome.storage.local: the keys it has and their values
  window,      \* the tabs of the current window, in tab-strip order
  activeTab,   \* id of the foreground tab of the window (0: none)
  nextTabId,   \* the id the host gives the next tab it creates
  nUuid,       \* number of ids crypto.randomUUID() has returned
  nMsgs,       \* number of messages received
  pc,          \* per handler: the await it is suspended at
  loc,         \* per handler: its arguments and local variables
  last,        \* the response sent last, until the next message arrives
  overlapped,  \* a message has arrived while another handler was in flight
  file,        \* the export file the popup downloaded last, and its origin
  popup,       \* the popup: what it loaded and the cards it rendered
  filtered     \* a list of tabs and what the filter of each handler keeps of it

vars == <<storage, window, activeTab, nextTabId, nUuid, nMsgs, pc, loc, last,
          overlapped, file, popup, filtered>>

EmptyCollection == [k \in {} |-> 0]

Keys(sessions) == DOMAIN sessions

\* the object with one more (or one replaced) property
Put(sessions, id, record) ==
  [k \in Keys(sessions) \cup {id} |-> IF k = id THEN record ELSE sessions[k]]

\* delete sessions[id]
Without(sessions, id) == [k \in Keys(sessions) \ {id} |-> sessions[k]]

EmptyStorage == [has |-> {}, sessions |-> EmptyCollection, activeSessionId |-> ""]

readSessions(st) == IF "sessions" \in st.has THEN st.sessions ELSE EmptyCollection

\* (variant: the write keeps the stored sessions the writer did not read)
writeSessions_merge(st, sessions) ==
  [st EXCEPT !.has = @ \cup {"sessions"},
             !.sessions = [k \in Keys(sessions) \cup Keys(@) |->
                             IF k \in Keys(sessions) THEN sessions[k] ELSE @[k]]]

writeSessions(st, sessions) ==
  [st EXCEPT !.has = @ \cup {"sessions"}, !.sessions = sessions]

\* chrome.storage.local.get("activeSessionId"): the id, or undefined
NoId == [t |-> "undefined", s |-> ""]
NullId == [t |-> "null", s |-> ""]
SomeId(id) == [t |-> "string", s |-> id]
getActiveSessionId(st) ==
  IF "activeSessionId" \in st.has THEN SomeId(st.activeSessionId) ELSE NoId

\* (variant: the session is written back with the tabs the restore opened)
setActiveSessionId_rewrite(st, id) ==
  [st EXCEPT !.has = @ \cup {"activeSessionId"}, !.activeSessionId = id,
             !.sessions = [k \in DOMAIN @ |->
                             IF k = id
                             THEN [@[k] EXCEPT !.tabs = SelectSeq(@, LAMBDA tab : isSafeUrl(tab.url))]
                             ELSE @[k]]]

setActiveSessionId(st, id) ==
  [st EXCEPT !.has = @ \cup {"activeSessionId"}, !.activeSessionId = id]

removeActiveSessionId(st) ==
  [st EXCEPT !.has = @ \ {"activeSessionId"}, !.activeSessionId = ""]

\* v ?? null
orNull(v) == IF v.t \in {"undefined", "null"} THEN NullId ELSE v

\* ------------------------------------------------------------------------
\* The tab-control surface of the host
\* ------------------------------------------------------------------------
TabIds(tabs) == {tabs[i].id : i \in 1..Len(tabs)}

\* a host call of a handler, as the handler's log records it
CreateCall(url, active, ok, id) ==
  [call |-> "create", url |-> url, active |-> active, ok |-> ok, ids |-> {id}]
RemoveCall(ok, ids) ==
  [call |-> "remove", url |-> Undefined, active |-> FALSE, ok |-> ok, ids |-> ids]

LocIdle ==
  [action |-> "none", sessionId |-> "", closeCurrentTabs |-> FALSE,
   name |-> Undefined, data |-> NoData,
   sessions |-> EmptyCollection, id |-> "", tabs |-> <<>>, ntabs |-> 0,
   tabsToClose |-> <<>>, imported |-> 0, afterDelete |-> "",
   preStorage |-> EmptyStorage, preWindow |-> <<>>, log |-> <<>>]

NoResponse ==
  [success |-> FALSE, error |-> "none", skipped |-> 0, imported |-> 0,
   sessions |-> EmptyCollection, activeSessionId |-> NoId, req |-> LocIdle]

\* no list of tabs has been filtered
NotFiltered ==
  [done |-> FALSE, tabs |-> <<>>, captured |-> <<>>, restored |-> <<>>, imported |-> <<>>,
   capturedAgain |-> <<>>, restoredAgain |-> <<>>, importedAgain |-> <<>>]

\* no export file yet
NoFile == [data |-> NoData, source |-> EmptyCollection]

\* the popup before it has loaded anything
PopupClosed ==
  [loaded |-> FALSE, allSessions |-> EmptyCollection, currentUrlSet |-> {},
   currentActiveSessionId |-> NullId, cards |-> EmptyCollection, banner |-> FALSE]

Session(id, name, createdAt, tabs) ==
  [id |-> id, name |-> name.s, createdAt |-> createdAt, tabs |-> tabs]

\* What chrome.storage.local can hold when the service worker starts: nothing
\* (a fresh install), what this version wrote in an earlier run (an imported
\* session, restored since), or what the earlier version of the handlers
\* (the second half of background.js) wrote: it stored imported sessions as
\* they came, unsafe tabs included.
StoredWork == Session("x1", NameWork, 1, <<Tab(UrlA, TitleT), Tab(UrlB, TitleT), Tab(UrlC, TitleT)>>)
LegacyWork == Session("x1", NameWork, 1, <<Tab(UrlData, TitleT), Tab(UrlA, TitleT)>>)
LegacyHome == Session("x2", NameHome, 2, <<Tab(UrlSettings, NoTitle)>>)

InitStores ==
  { EmptyStorage,
    [has |-> {"sessions", "activeSessionId"}, sessions |-> [k \in {"x1"} |-> StoredWork],
     activeSessionId |-> "x1"],
    [has |-> {"sessions"},
     sessions |-> [k \in {"x1", "x2"} |-> IF k = "x1" THEN LegacyWork ELSE LegacyHome],
     activeSessionId |-> ""] }

Init ==
  /\ storage \in InitStores
  /\ window \in InitWindows
  /\ activeTab = 1
  /\ nextTabId = Len(window) + 1
  /\ nUuid = 0
  /\ nMsgs = 0
  /\ pc = [p \in Procs |-> "idle"]
  /\ loc = [p \in Procs |-> LocIdle]
  /\ last = NoResponse
  /\ overlapped = FALSE
  /\ file = NoFile
  /\ popup = PopupClosed
  /\ filtered = NotFiltered

\* ------------------------------------------------------------------------
\* Responses
\* ------------------------------------------------------------------------
\* the handler of p ends: it sends response r, l being its locals at the end
Respond(p, l, r) ==
  /\ pc' = [pc EXCEPT ![p] = "idle"]
  /\ loc' = [loc EXCEPT ![p] = LocIdle]
  /\ last' = [r EXCEPT !.req = l]

Success == [NoResponse EXCEPT !.success = TRUE, !.error = ""]

\* the rejection the listener turns into { success: false, error }
Failure(message) == [NoResponse EXCEPT !.success = FALSE, !.error = message]

\* await of a host call: a rejected call throws out of the handler
Thrown == "throw"
\* (variant: the rejection is swallowed and the handler goes on)
awaitResult_swallow(ok, continuation) == continuation

awaitResult(ok, continuation) == IF ok THEN continuation ELSE Thrown

\* ------------------------------------------------------------------------
\* chrome.tabs
\* ------------------------------------------------------------------------
\* chrome.tabs.query({ currentWindow: true })
queryTabs(win) == win

\* chrome.tabs.create({ url, active }) resolved: the tab goes to the end
createTab(win, id, url) == Append(win, LiveTab(id, url, NoTitle))

\* The calls of urls.map((tab) => chrome.tabs.create(...)) the host receives:
\* map issues every call before any of them settles.
\* (variant: for ... await create, which stops at the first rejection)
issuedCalls_untilFailure(urls, oks) ==
  {i \in 1..Len(urls) : \A j \in 1..(i - 1) : oks[j]}

issuedCalls(urls, oks) == 1..Len(urls)

\* the batch of create calls, oks[i] telling whether the host accepts call i:
\* the window, the next tab id and the log after the calls
RECURSIVE createBatch(_, _, _, _, _, _)
createBatch(win, nid, urls, oks, i, log) ==
  IF i > Len(urls) THEN [window |-> win, nextTabId |-> nid, log |-> log]
  ELSE IF i \notin issuedCalls(urls, oks)
       THEN createBatch(win, nid, urls, oks, i + 1, log)
  ELSE IF oks[i]
       THEN createBatch(createTab(win, nid, urls[i]), nid + 1, urls, oks, i + 1,
                        Append(log, CreateCall(urls[i], FALSE, TRUE, nid)))
  ELSE createBatch(win, nid, urls, oks, i + 1,
                   Append(log, CreateCall(urls[i], FALSE, FALSE, 0)))

\* chrome.tabs.remove(ids): the host closes the tabs in order and rejects at
\* the first id that is no tab of its (or at call failAt, when it fails on
\* its own); the tabs closed before that stay closed
RECURSIVE removeUpTo(_, _, _, _)
removeUpTo(win, ids, failAt, i) ==
  IF i > Len(ids) THEN [window |-> win, ok |-> TRUE, removed |-> {ids[j] : j \in 1..Len(ids)}]
  ELSE IF i = failAt \/ ids[i] \notin TabIds(win)
       THEN [window |-> win, ok |-> FALSE, removed |-> {ids[j] : j \in 1..(i - 1)}]
  ELSE removeUpTo(SelectSeq(win, LAMBDA t : t.id # ids[i]), ids, failAt, i + 1)

removeTabs(win, ids, failAt) == removeUpTo(win, ids, failAt, 1)

\* the foreground tab after a change of the window: the host picks another
\* tab when the foreground one is closed
ForegroundAfter(win, wanted) ==
  IF wanted \in TabIds(win) THEN {wanted}
  ELSE IF win = <<>> THEN {0}
  ELSE TabIds(win)

\* the host can still create n tabs
CanCreate(n) == nextTabId + n - 1 <= MaxTabId

\* ------------------------------------------------------------------------
\* restoreSession
\* ------------------------------------------------------------------------
safeTabsOf(tabs) == SelectSeq(tabs, LAMBDA tab : isSafeUrl(tab.url))

\* (variant: the old tabs are removed before the anchor is created)
restoreNext_removeFirst(label, closeCurrentTabs, nSafe) ==
  CASE label = "restore_read" ->
         IF closeCurrentTabs THEN "restore_query" ELSE "restore_batch"
    [] label = "restore_query" -> "restore_remove"
    [] label = "restore_remove" -> "restore_anchor"
    [] label = "restore_anchor" ->
         IF nSafe > 1 THEN "restore_rest" ELSE "restore_set"
    [] label = "restore_rest" -> "restore_set"
    [] label = "restore_batch" -> "restore_set"

\* (variant: the remaining tabs are created before the old tabs are removed)
restoreNext_restFirst(label, closeCurrentTabs, nSafe) ==
  CASE label = "restore_read" ->
         IF closeCurrentTabs THEN "restore_query" ELSE "restore_batch"
    [] label = "restore_query" -> "restore_anchor"
    [] label = "restore_anchor" ->
         IF nSafe > 1 THEN "restore_rest" ELSE "restore_remove"
    [] label = "restore_rest" -> "restore_remove"
    [] label = "restore_remove" -> "restore_set"
    [] label = "restore_batch" -> "restore_set"

\* (variant: closeCurrentTabs is ignored, the window is always replaced)
restoreNext_alwaysClose(label, closeCurrentTabs, nSafe) ==
  CASE label = "restore_read" -> "restore_query"
    [] label = "restore_query" -> "restore_anchor"
    [] label = "restore_anchor" -> "restore_remove"
    [] label = "restore_remove" ->
         IF nSafe > 1 THEN "restore_rest" ELSE "restore_set"
    [] label = "restore_rest" -> "restore_set"
    [] label = "restore_batch" -> "restore_set"

\* the await a restore reaches after the one at label
restoreNext(label, closeCurrentTabs, nSafe) ==
  CASE label = "restore_read" ->
         IF closeCurrentTabs THEN "restore_query" ELSE "restore_batch"
    [] label = "restore_query" -> "restore_anchor"
    [] label = "restore_anchor" -> "restore_remove"
    [] label = "restore_remove" ->
         IF nSafe > 1 THEN "restore_rest" ELSE "restore_set"
    [] label = "restore_rest" -> "restore_set"
    [] label = "restore_batch" -> "restore_set"

Goto(p, l) ==
  restoreNext(pc[p], l.closeCurrentTabs, Len(l.tabs))

\* (variant: the number of tabs restored instead of the number skipped)
skippedCount_restored(ntabs, nSafe) == nSafe

skippedCount(ntabs, nSafe) == ntabs - nSafe

\* a step of the handler of p that ends at target with locals l
Continue(p, l, target, message) ==
  IF target = Thrown
  THEN Respond(p, l, Failure(message))
  ELSE /\ pc' = [pc EXCEPT ![p] = target]
       /\ loc' = [loc EXCEPT ![p] = l]
       /\ UNCHANGED last

\* currentTabs.map((tab) => tab.id)
tabsToClose(currentTabs) == [i \in 1..Len(currentTabs) |-> currentTabs[i].id]

\* (variant: the slice is forgotten, the anchor is created again)
restTabs_all(safeTabs) == safeTabs

\* safeTabs.slice(1)
restTabs(safeTabs) == [i \in 1..(Len(safeTabs) - 1) |-> safeTabs[i + 1]]

urlsOf(tabs) == [i \in 1..Len(tabs) |-> tabs[i].url]

\* (variant: the handlers go on without the test)
notFound_never(sessions, sessionId) == FALSE

\* !sessions[sessionId]
notFound(sessions, sessionId) == sessionId \notin Keys(sessions)

\* sessions[sessionId] is undefined: reading or assigning a property of it
\* throws a TypeError
isUndefined(sessions, sessionId) == sessionId \notin Keys(sessions)

restoreSession_read(p) ==
  /\ pc[p] = "restore_read"
  /\ LET sessions == readSessions(storage)
         id == loc[p].sessionId
     IN IF notFound(sessions, id)
        THEN Respond(p, loc[p], Failure("Session not found."))
        ELSE IF isUndefined(sessions, id)
        THEN Respond(p, loc[p], Failure("TypeError"))
        ELSE LET session == sessions[id]
                 safeTabs == safeTabsOf(session.tabs)
                 l == [loc[p] EXCEPT !.tabs = safeTabs, !.ntabs = Len(session.tabs)]
             IN IF Len(safeTabs) = 0
                THEN Respond(p, l, Failure("No restorable tabs in this session."))
                ELSE Continue(p, l, Goto(p, l), "")
  /\ UNCHANGED <<storage, window, activeTab, nextTabId, nUuid, nMsgs, overlapped, file, popup, filtered>>

restoreSession_query(p) ==
  /\ pc[p] = "restore_query"
  /\ LET currentTabs == queryTabs(window)
         l == [loc[p] EXCEPT !.tabsToClose = tabsToClose(currentTabs)]
     IN Continue(p, l, Goto(p, l), "")
  /\ UNCHANGED <<storage, window, activeTab, nextTabId, nUuid, nMsgs, overlapped, file, popup, filtered>>

restoreSession_anchor(p) ==
  /\ pc[p] = "restore_anchor"
  /\ \E ok \in BOOLEAN :
       LET url == loc[p].tabs[1].url
           l == [loc[p] EXCEPT !.log = Append(@, CreateCall(url, TRUE, ok, IF ok THEN nextTabId ELSE 0))]
       IN /\ ok => CanCreate(1)
          /\ window' = IF ok THEN createTab(window, nextTabId, url) ELSE window
          /\ activeTab' = IF ok THEN nextTabId ELSE activeTab
          /\ nextTabId' = IF ok THEN nextTabId + 1 ELSE nextTabId
          /\ Continue(p, l, awaitResult(ok, Goto(p, l)), "tabs.create failed")
  /\ UNCHANGED <<storage, nUuid, nMsgs, overlapped, file, popup, filtered>>

restoreSession_remove(p) ==
  /\ pc[p] = "restore_remove"
  /\ \E failAt \in 0..Len(loc[p].tabsToClose) :
       LET r == removeTabs(window, loc[p].tabsToClose, failAt)
           l == [loc[p] EXCEPT !.log = Append(@, RemoveCall(r.ok, r.removed))]
       IN /\ window' = r.window
          /\ activeTab' \in ForegroundAfter(r.window, activeTab)
          /\ Continue(p, l, awaitResult(r.ok, Goto(p, l)), "tabs.remove failed")
  /\ UNCHANGED <<storage, nextTabId, nUuid, nMsgs, overlapped, file, popup, filtered>>

\* await Promise.all(urls.map(create)): every call is issued, the await
\* throws when one of them is rejected
CreateAll(p, urls) ==
  \E oks \in [1..Len(urls) -> BOOLEAN] :
    LET r == createBatch(window, nextTabId, urls, oks, 1, loc[p].log)
        l == [loc[p] EXCEPT !.log = r.log]
        allOk == \A i \in 1..Len(urls) : oks[i]
    IN /\ r.nextTabId - 1 <= MaxTabId
       /\ window' = r.window
       /\ nextTabId' = r.nextTabId
       /\ Continue(p, l, awaitResult(allOk, Goto(p, l)), "tabs.create failed")

restoreSession_rest(p) ==
  /\ pc[p] = "restore_rest"
  /\ CreateAll(p, urlsOf(restTabs(loc[p].tabs)))
  /\ UNCHANGED <<storage, activeTab, nUuid, nMsgs, overlapped, file, popup, filtered>>

restoreSession_batch(p) ==
  /\ pc[p] = "restore_batch"
  /\ CreateAll(p, urlsOf(loc[p].tabs))
  /\ UNCHANGED <<storage, activeTab, nUuid, nMsgs, overlapped, file, popup, filtered>>

restoreSession_set(p) ==
  /\ pc[p] = "restore_set"
  /\ storage' = setActiveSessionId(storage, loc[p].sessionId)
  /\ Respond(p, loc[p],
             [Success EXCEPT !.skipped = skippedCount(loc[p].ntabs, Len(loc[p].tabs))])
  /\ UNCHANGED <<window, activeTab, nextTabId, nUuid, nMsgs, overlapped, file, popup, filtered>>

\* ------------------------------------------------------------------------
\* importSessions
\* ------------------------------------------------------------------------
\* the shape test of the first line of importSessions
validFormat(data) ==
  ~ (\/ data.t \in {"undefined", "null"}
     \/ Typeof(data.t) # "object"
     \/ Typeof(data.st) # "object")

\* the structural test of an incoming record (Array.isArray for tabs)
validRecord(session) ==
  ~ (\/ Typeof(session.id.t) # "string"
     \/ Typeof(session.name.t) # "string"
     \/ Typeof(session.createdAt.t) # "number"
     \/ session.tabs.t # "array")

\* (variant: the tabs of an incoming record are stored unfiltered)
importedTabs_all(tabs) == tabs

importedTabs(tabs) ==
  SelectSeq(tabs, LAMBDA tab : Typeof(tab.url.t) = "string" /\ isSafeUrl(tab.url))

\* (variant: the test is missing, an incoming record replaces a stored one)
isExisting_never(existing, id) == FALSE

\* if (existing[id]) continue
isExisting(existing, id) == id \in Keys(existing)

\* the loop over Object.entries(data.sessions); reading a property of a
\* record that is null throws a TypeError out of the loop
RECURSIVE mergeEntries(_, _, _, _)
mergeEntries(existing, imported, entries, i) ==
  IF i > Len(entries)
  THEN [existing |-> existing, imported |-> imported, threw |-> FALSE]
  ELSE LET id == entries[i].key
           session == entries[i].value
       IN IF isExisting(existing, id)
          THEN mergeEntries(existing, imported, entries, i + 1)
          ELSE IF session.kind = "null"
          THEN [existing |-> existing, imported |-> imported, threw |-> TRUE]
          ELSE IF session.kind # "object" \/ ~ validRecord(session)
          THEN mergeEntries(existing, imported, entries, i + 1)
          ELSE mergeEntries(
                 Put(existing, id,
                     [id |-> session.id.v, name |-> session.name.v,
                      createdAt |-> session.createdAt.v,
                      tabs |-> importedTabs(session.tabs.v)]),
                 imported + 1, entries, i + 1)

importSessions_read(p) ==
  /\ pc[p] = "import_read"
  /\ LET r == mergeEntries(readSessions(storage), 0, loc[p].data.entries, 1)
         l == [loc[p] EXCEPT !.sessions = r.existing, !.imported = r.imported]
         \* Object.entries(null) throws as well
         ok == loc[p].data.st # "null" /\ ~ r.threw
     IN IF ok
        THEN Continue(p, l, "import_write", "")
        ELSE Continue(p, loc[p], Thrown, "TypeError")
  /\ UNCHANGED <<storage, window, activeTab, nextTabId, nUuid, nMsgs, overlapped, file, popup, filtered>>

importSessions_write(p) ==
  /\ pc[p] = "import_write"
  /\ storage' = writeSessions(storage, loc[p].sessions)
  /\ Respond(p, loc[p], [Success EXCEPT !.imported = loc[p].imported])
  /\ UNCHANGED <<window, activeTab, nextTabId, nUuid, nMsgs, overlapped, file, popup, filtered>>

\* ------------------------------------------------------------------------
\* getSessions, exportSessions
\* ------------------------------------------------------------------------
getSessions_read(p) ==
  /\ pc[p] = "get_read"
  /\ Continue(p, [loc[p] EXCEPT !.sessions = readSessions(storage)], "get_active", "")
  /\ UNCHANGED <<storage, window, activeTab, nextTabId, nUuid, nMsgs, overlapped, file, popup, filtered>>

getSessions_active(p) ==
  /\ pc[p] = "get_active"
  /\ Respond(p, loc[p],
             [Success EXCEPT !.sessions = loc[p].sessions,
                             !.activeSessionId = orNull(getActiveSessionId(storage))])
  /\ UNCHANGED <<storage, window, activeTab, nextTabId, nUuid, nMsgs, overlapped, file, popup, filtered>>

exportSessions_read(p) ==
  /\ pc[p] = "export_read"
  /\ Respond(p, loc[p], [Success EXCEPT !.sessions = readSessions(storage)])
  /\ UNCHANGED <<storage, window, activeTab, nextTabId, nUuid, nMsgs, overlapped, file, popup, filtered>>

\* ------------------------------------------------------------------------
\* saveSession, updateSession
\* ------------------------------------------------------------------------
\* !name || !name.trim()
emptyName(name) == Falsy(name) \/ Falsy(Str(trim(name.s)))

\* (variant: every open tab is captured)
captureTabs_all(tabs) ==
  [i \in 1..Len(tabs) |->
     Tab(tabs[i].url, IF Falsy(tabs[i].title) THEN tabs[i].url ELSE tabs[i].title)]

\* tabs.filter(isSafeUrl).map(({ url, title: title || url }))
captureTabs(tabs) ==
  LET safe == SelectSeq(tabs, LAMBDA tab : isSafeUrl(tab.url))
  IN [i \in 1..Len(safe) |->
        Tab(safe[i].url, IF Falsy(safe[i].title) THEN safe[i].url ELSE safe[i].title)]

\* Date.now(): the clock advances with every message received
now == nMsgs

saveSession_query(p) ==
  /\ pc[p] = "save_query"
  /\ LET filteredTabs == captureTabs(queryTabs(window))
         l == [loc[p] EXCEPT !.tabs = filteredTabs]
     IN IF Len(filteredTabs) = 0
        THEN Respond(p, l, Failure("No saveable tabs found in the current window."))
        ELSE Continue(p, l, "save_read", "")
  /\ UNCHANGED <<storage, window, activeTab, nextTabId, nUuid, nMsgs, overlapped, file, popup, filtered>>

saveSession_read(p) ==
  /\ pc[p] = "save_read"
  /\ nUuid < Len(UuidPool)
  /\ LET id == UuidPool[nUuid + 1]
         session == [id |-> id, name |-> trim(loc[p].name.s),
                     createdAt |-> now, tabs |-> loc[p].tabs]
         l == [loc[p] EXCEPT !.id = id,
                             !.sessions = Put(readSessions(storage), id, session)]
     IN Continue(p, l, "save_write", "")
  /\ nUuid' = nUuid + 1
  /\ UNCHANGED <<storage, window, activeTab, nextTabId, nMsgs, overlapped, file, popup, filtered>>

saveSession_write(p) ==
  /\ pc[p] = "save_write"
  /\ storage' = writeSessions(storage, loc[p].sessions)
  /\ Respond(p, loc[p], Success)
  /\ UNCHANGED <<window, activeTab, nextTabId, nUuid, nMsgs, overlapped, file, popup, filtered>>

updateSession_read(p) ==
  /\ pc[p] = "update_read"
  /\ LET sessions == readSessions(storage)
     IN IF notFound(sessions, loc[p].sessionId)
        THEN Respond(p, loc[p], Failure("Session not found."))
        ELSE Continue(p, [loc[p] EXCEPT !.sessions = sessions], "update_query", "")
  /\ UNCHANGED <<storage, window, activeTab, nextTabId, nUuid, nMsgs, overlapped, file, popup, filtered>>

updateSession_query(p) ==
  /\ pc[p] = "update_query"
  /\ LET filteredTabs == captureTabs(queryTabs(window))
         id == loc[p].sessionId
         l == [loc[p] EXCEPT !.tabs = filteredTabs,
                             !.sessions = Put(@, id, [@[id] EXCEPT !.tabs = filteredTabs])]
     IN IF Len(filteredTabs) = 0
        THEN Respond(p, loc[p], Failure("No saveable tabs found in the current window."))
        ELSE IF isUndefined(loc[p].sessions, id)
        THEN Respond(p, loc[p], Failure("TypeError"))
        ELSE Continue(p, l, "update_write", "")
  /\ UNCHANGED <<storage, window, activeTab, nextTabId, nUuid, nMsgs, overlapped, file, popup, filtered>>

updateSession_write(p) ==
  /\ pc[p] = "update_write"
  /\ storage' = writeSessions(storage, loc[p].sessions)
  /\ Respond(p, loc[p], Success)
  /\ UNCHANGED <<window, activeTab, nextTabId, nUuid, nMsgs, overlapped, file, popup, filtered>>

\* ------------------------------------------------------------------------
\* deleteSession, renameSession
\* ------------------------------------------------------------------------
deleteSession_read(p) ==
  /\ pc[p] = "delete_read"
  /\ LET sessions == readSessions(storage)
     IN IF notFound(sessions, loc[p].sessionId)
        THEN Respond(p, loc[p], Failure("Session not found."))
        ELSE Continue(p, [loc[p] EXCEPT !.sessions = Without(sessions, loc[p].sessionId)],
                      "delete_write", "")
  /\ UNCHANGED <<storage, window, activeTab, nextTabId, nUuid, nMsgs, overlapped, file, popup, filtered>>

deleteSession_write(p) ==
  /\ pc[p] = "delete_write"
  /\ storage' = writeSessions(storage, loc[p].sessions)
  /\ Continue(p, loc[p], "delete_get", "")
  /\ UNCHANGED <<window, activeTab, nextTabId, nUuid, nMsgs, overlapped, file, popup, filtered>>

\* (variant: deleteSession as the earlier version had it, the pointer is
\* never looked at)
isActiveSession_never(activeSessionId, sessionId) == FALSE

\* activeSessionId === sessionId
isActiveSession(activeSessionId, sessionId) == activeSessionId = SomeId(sessionId)

deleteSession_get(p) ==
  /\ pc[p] = "delete_get"
  /\ IF isActiveSession(getActiveSessionId(storage), loc[p].sessionId)
     THEN Continue(p, loc[p], "delete_remove", "")
     ELSE Respond(p, loc[p], Success)
  /\ UNCHANGED <<storage, window, activeTab, nextTabId, nUuid, nMsgs, overlapped, file, popup, filtered>>

deleteSession_remove(p) ==
  /\ pc[p] = "delete_remove"
  /\ storage' = removeActiveSessionId(storage)
  /\ Respond(p, loc[p], Success)
  /\ UNCHANGED <<window, activeTab, nextTabId, nUuid, nMsgs, overlapped, file, popup, filtered>>

renameSession_read(p) ==
  /\ pc[p] = "rename_read"
  /\ LET sessions == readSessions(storage)
         id == loc[p].sessionId
     IN IF notFound(sessions, id)
        THEN Respond(p, loc[p], Failure("Session not found."))
        ELSE IF isUndefined(sessions, id)
        THEN Respond(p, loc[p], Failure("TypeError"))
        ELSE Continue(p, [loc[p] EXCEPT !.sessions =
                            Put(sessions, id, [sessions[id] EXCEPT !.name = trim(loc[p].name.s)])],
                      "rename_write", "")
  /\ UNCHANGED <<storage, window, activeTab, nextTabId, nUuid, nMsgs, overlapped, file, popup, filtered>>

renameSession_write(p) ==
  /\ pc[p] = "rename_write"
  /\ storage' = writeSessions(storage, loc[p].sessions)
  /\ Respond(p, loc[p], Success)
  /\ UNCHANGED <<window, activeTab, nextTabId, nUuid, nMsgs, overlapped, file, popup, filtered>>

\* ------------------------------------------------------------------------
\* The message listener
\* ------------------------------------------------------------------------
\* the ids a message can name: those of the sessions the store holds or a
\* handler in flight is about to write, and one that no session has
SessionIdsNow ==
  Keys(readSessions(storage))
    \cup UNION {Keys(loc[p].sessions) : p \in Procs}
    \cup {MissingId}

Message(action, sessionId, closeCurrentTabs, name, data) ==
  [LocIdle EXCEPT !.action = action, !.sessionId = sessionId,
                  !.closeCurrentTabs = closeCurrentTabs, !.name = name, !.data = data]

Messages ==
  {Message(a, "", FALSE, Undefined, NoData) : a \in {"getSessions", "exportSessions", "unknown"}}
  \cup {Message("saveSession", "", FALSE, n, NoData) : n \in {NamePadded, NameBlank}}
  \cup {Message("restoreSession", id, c, Undefined, NoData) : id \in SessionIdsNow, c \in BOOLEAN}
  \cup {Message(a, id, FALSE, Undefined, NoData) : a \in {"deleteSession", "updateSession"}, id \in SessionIdsNow}
  \cup {Message("renameSession", id, FALSE, n, NoData) : id \in SessionIdsNow, n \in {NameNew, NameBlank}}
  \cup {Message("importSessions", "", FALSE, Undefined, d) : d \in Payloads}

\* the await a handler without a failing argument check suspends at first
firstAwait(message) ==
  CASE message.action = "getSessions" -> "get_read"
    [] message.action = "saveSession" ->
         IF emptyName(message.name) THEN Thrown ELSE "save_query"
    [] message.action = "restoreSession" -> "restore_read"
    [] message.action = "deleteSession" -> "delete_read"
    [] message.action = "renameSession" ->
         IF emptyName(message.name) THEN Thrown ELSE "rename_read"
    [] message.action = "exportSessions" -> "export_read"
    [] message.action = "importSessions" ->
         IF validFormat(message.data) THEN "import_read" ELSE Thrown
    [] message.action = "updateSession" -> "update_read"
    [] OTHER -> Thrown

thrownMessage(message) ==
  CASE message.action \in {"saveSession", "renameSession"} -> "Session name cannot be empty."
    [] message.action = "importSessions" -> "Invalid import file format."
    [] OTHER -> "Unknown action"

\* the id of the session the response r reports deleted, when r answers a
\* delete of the session the Active Session Pointer referenced ("" otherwise)
DeletedActive(r) ==
  IF /\ r.success
     /\ r.req.action = "deleteSession"
     /\ getActiveSessionId(r.req.preStorage) = SomeId(r.req.sessionId)
  THEN r.req.sessionId ELSE ""

\* the listener receives one of the given messages
receive(p, messages) ==
  /\ pc[p] = "idle"
  /\ \A q \in Procs : q < p => pc[q] # "idle"
  /\ nMsgs < MaxOps
  /\ nMsgs' = nMsgs + 1
  /\ overlapped' = (overlapped \/ \E q \in Procs : pc[q] # "idle")
  /\ \E message \in messages :
       LET l == [message EXCEPT !.preStorage = storage, !.preWindow = window,
                                !.afterDelete = DeletedActive(last)]
       IN IF firstAwait(message) = Thrown
          THEN Respond(p, l, Failure(thrownMessage(message)))
          ELSE /\ pc' = [pc EXCEPT ![p] = firstAwait(message)]
               /\ loc' = [loc EXCEPT ![p] = l]
               /\ last' = NoResponse
  /\ UNCHANGED <<storage, window, activeTab, nextTabId, nUuid, file, popup, filtered>>

handleMessage(p) == receive(p, Messages)

\* the import messages with the other payloads
FileMessages ==
  {Message("importSessions", "", FALSE, Undefined, d) :
     d \in FilePayloads \cup (IF file = NoFile THEN {} ELSE {file.data})}

\* ------------------------------------------------------------------------
\* The export file and a fresh profile
\* ------------------------------------------------------------------------
\* the enumerations of a set, each a sequence without repetition
Orders(S) == {f \in [1..Cardinality(S) -> S] : \A i, j \in DOMAIN f : f[i] = f[j] => i = j}

\* JSON.parse(JSON.stringify({ sessions })): every stored record becomes a
\* JSON object whose fields carry their JSON types; order lists the keys
toPayload(sessions, order) ==
  Data("object", "object",
       [i \in 1..Len(order) |->
          LET r == sessions[order[i]]
          IN Entry(order[i],
                   Incoming("object", Field("string", r.id), Field("string", r.name),
                            Field("number", r.createdAt), Field("array", r.tabs)))])

\* the popup downloads the sessions of the export response as a file
saveFile ==
  /\ last.success
  /\ last.req.action = "exportSessions"
  /\ \E order \in Orders(Keys(last.sessions)) :
       file' = [data |-> toPayload(last.sessions, order), source |-> last.sessions]
  /\ UNCHANGED <<storage, window, activeTab, nextTabId, nUuid, nMsgs, pc, loc, last,
                 overlapped, popup, filtered>>

\* the user takes the file to a profile where the extension has stored nothing
clearStorage ==
  /\ \A p \in Procs : pc[p] = "idle"
  /\ file # NoFile
  /\ storage # EmptyStorage
  /\ storage' = EmptyStorage
  /\ last' = NoResponse
  /\ UNCHANGED <<window, activeTab, nextTabId, nUuid, nMsgs, pc, loc, overlapped,
                 file, popup, filtered>>

\* ------------------------------------------------------------------------
\* The popup
\* ------------------------------------------------------------------------
\* new Set(currentTabs.map((t) => t.url))
urlSet(tabs) == {tabs[i].url : i \in 1..Len(tabs)}

\* session.tabs.every((tab) => currentUrls.has(tab.url))
everyOpen(session, currentUrls) ==
  \A i \in 1..Len(session.tabs) : session.tabs[i].url \in currentUrls

tabsMatch(session, currentUrls) ==
  /\ Len(session.tabs) > 0
  /\ Len(session.tabs) = Cardinality(currentUrls)
  /\ everyOpen(session, currentUrls)

isTracked(session, activeSessionId) == SomeId(session.id) = activeSessionId

\* the three flags buildSessionCard derives the look of the card from
buildSessionCard(session, currentUrls, activeSessionId) ==
  [isClean |-> isTracked(session, activeSessionId) /\ tabsMatch(session, currentUrls),
   isModified |-> isTracked(session, activeSessionId) /\ ~ tabsMatch(session, currentUrls),
   isExact |-> ~ isTracked(session, activeSessionId) /\ tabsMatch(session, currentUrls)]

\* the unsaved-changes banner of renderSessions
bannerShown(sessions, currentUrls, activeSessionId) ==
  /\ activeSessionId.t = "string"
  /\ activeSessionId.s # ""
  /\ activeSessionId.s \in Keys(sessions)
  /\ LET activeSession == sessions[activeSessionId.s]
     IN ~ (/\ Len(activeSession.tabs) = Cardinality(currentUrls)
           /\ everyOpen(activeSession, currentUrls))

renderSessions(sessions, currentUrls, activeSessionId) ==
  [loaded |-> TRUE, allSessions |-> sessions, currentUrlSet |-> currentUrls,
   currentActiveSessionId |-> activeSessionId,
   cards |-> [id \in Keys(sessions) |->
                buildSessionCard(sessions[id], currentUrls, activeSessionId)],
   banner |-> bannerShown(sessions, currentUrls, activeSessionId)]

\* the popup opens: it asks for the sessions and the pointer, queries the tabs
\* of the window and renders; no handler is in flight meanwhile
loadAndRender ==
  /\ \A p \in Procs : pc[p] = "idle"
  /\ ~ popup.loaded
  /\ popup' = renderSessions(readSessions(storage), urlSet(queryTabs(window)),
                             orNull(getActiveSessionId(storage)))
  /\ UNCHANGED <<storage, window, activeTab, nextTabId, nUuid, nMsgs, pc, loc, last,
                 overlapped, file, filtered>>

\* the lists of at most n elements of S
ListsUpTo(S, n) == UNION {[1..k -> S] : k \in 0..n}

\* What the popup can find when it opens: two stored sessions, each with the
\* safe tabs of the window it was created or updated from (a URL can be open
\* in several tabs) or imported without tabs, the pointer absent or at one of
\* them, and a window of tabs with or without titles.
StoredLists == ListsUpTo({UrlA, UrlB}, MaxStored)
LiveLists == ListsUpTo({UrlA, UrlB, UrlSettings}, MaxLive) \ {<<>>}
TabsOf(urls, title) == [i \in 1..Len(urls) |-> Tab(urls[i], title)]
LiveTabsOf(urls, title) == [i \in 1..Len(urls) |-> LiveTab(i, urls[i], title)]

PopupStores ==
  { [has |-> {"sessions"} \cup ptr,
     sessions |-> [k \in {"x1", "x2"} |->
                     IF k = "x1" THEN Session("x1", NameWork, 1, TabsOf(u1, TitleT))
                                 ELSE Session("x2", NameHome, 2, TabsOf(u2, TitleT))],
     activeSessionId |-> IF ptr = {} THEN "" ELSE "x1"] :
    u1 \in StoredLists, u2 \in StoredLists, ptr \in {{}, {"activeSessionId"}} }

PopupWindows == {LiveTabsOf(urls, title) : urls \in LiveLists, title \in {TitleT, NoTitle}}

InitPopup ==
  /\ storage \in PopupStores
  /\ window \in PopupWindows
  /\ activeTab = 1
  /\ nextTabId = Len(window) + 1
  /\ nUuid = 0
  /\ nMsgs = 0
  /\ pc = [p \in Procs |-> "idle"]
  /\ loc = [p \in Procs |-> LocIdle]
  /\ last = NoResponse
  /\ overlapped = FALSE
  /\ file = NoFile
  /\ popup = PopupClosed
  /\ filtered = NotFiltered

NextPopup == loadAndRender

SpecPopup == InitPopup /\ [][NextPopup]_vars

\* ------------------------------------------------------------------------
\* The filter on its own
\* ------------------------------------------------------------------------
\* URLs a tab can carry: a web page, a URL of each blocked scheme, strings
\* that hold a blocked scheme without beginning with it, the empty string,
\* and, in an import file or for a tab whose URL the host withholds, no
\* string at all
ProbeUrls ==
  {UrlA}
    \cup {Str(prefix \o <<"x">>) :
            prefix \in {P_chrome, P_chrome_extension, P_about, P_edge, P_brave,
                        P_javascript, P_data}}
    \cup {Str(<<"c", "h", "r", "o", "m", "e">>), Str(<<"x">> \o P_about)}
    \cup {Str(<<>>), Undefined, Null, [t |-> "number", s |-> <<>>]}

ProbeLists == ListsUpTo(ProbeUrls, MaxProbe)

\* the three places that filter a list of tabs, each applied once and twice
applyFilters ==
  /\ ~ filtered.done
  /\ LET tabs == filtered.tabs
     IN filtered' =
          [done |-> TRUE, tabs |-> tabs,
           captured |-> captureTabs(tabs),
           restored |-> safeTabsOf(tabs),
           imported |-> importedTabs(tabs),
           capturedAgain |-> captureTabs(captureTabs(tabs)),
           restoredAgain |-> safeTabsOf(safeTabsOf(tabs)),
           importedAgain |-> importedTabs(importedTabs(tabs))]
  /\ UNCHANGED <<storage, window, activeTab, nextTabId, nUuid, nMsgs, pc, loc, last,
                 overlapped, file, popup>>

InitFilter ==
  /\ storage = EmptyStorage
  /\ window \in InitWindows
  /\ activeTab = 1
  /\ nextTabId = Len(window) + 1
  /\ nUuid = 0
  /\ nMsgs = 0
  /\ pc = [p \in Procs |-> "idle"]
  /\ loc = [p \in Procs |-> LocIdle]
  /\ last = NoResponse
  /\ overlapped = FALSE
  /\ file = NoFile
  /\ popup = PopupClosed
  /\ \E urls \in ProbeLists : filtered = [NotFiltered EXCEPT !.tabs = TabsOf(urls, TitleT)]

NextFilter == applyFilters

SpecFilter == InitFilter /\ [][NextFilter]_vars

\* ------------------------------------------------------------------------
\* Specifications
\* ------------------------------------------------------------------------
Step(p) ==
  \/ getSessions_read(p)
  \/ getSessions_active(p)
  \/ exportSessions_read(p)
  \/ saveSession_query(p)
  \/ saveSession_read(p)
  \/ saveSession_write(p)
  \/ restoreSession_read(p)
  \/ restoreSession_query(p)
  \/ restoreSession_anchor(p)
  \/ restoreSession_remove(p)
  \/ restoreSession_rest(p)
  \/ restoreSession_batch(p)
  \/ restoreSession_set(p)
  \/ updateSession_read(p)
  \/ updateSession_query(p)
  \/ updateSession_write(p)
  \/ deleteSession_read(p)
  \/ deleteSession_write(p)
  \/ deleteSession_get(p)
  \/ deleteSession_remove(p)
  \/ renameSession_read(p)
  \/ renameSession_write(p)
  \/ importSessions_read(p)
  \/ importSessions_write(p)

\* the handlers of the messages interleave at their awaits
Next ==
  \/ \E p \in Procs : handleMessage(p)
  \/ \E p \in Procs : Step(p)

Spec == Init /\ [][Next]_vars

\* one message at a time: the next one arrives after the response
AllIdle == \A p \in Procs : pc[p] = "idle"

NextSeq ==
  \/ AllIdle /\ receive(1, Messages \cup FileMessages)
  \/ Step(1)
  \/ saveFile
  \/ clearStorage

SpecSeq == Init /\ [][NextSeq]_vars

\* the same from a store that only these handlers have written: nothing yet,
\* or the session of an import that has been restored since
FreshStores ==
  { EmptyStorage,
    [has |-> {"sessions", "activeSessionId"}, sessions |-> [k \in {"x1"} |-> StoredWork],
     activeSessionId |-> "x1"] }

InitFresh == Init /\ storage \in FreshStores

SpecFresh == InitFresh /\ [][NextSeq]_vars

\* ------------------------------------------------------------------------
\* Properties
\* ------------------------------------------------------------------------
InFlight(p) == pc[p] # "idle"

IsRestore(l, closeCurrentTabs) ==
  l.action = "restoreSession" /\ l.closeCurrentTabs = closeCurrentTabs

\* the tabs the session a request names had in the store when the message arrived
StoredTabs(l) == readSessions(l.preStorage)[l.sessionId].tabs
Known(l) == l.sessionId \in Keys(readSessions(l.preStorage))
NumSafe(tabs) == Cardinality({i \in 1..Len(tabs) : isSafeUrl(tabs[i].url)})

IsAnchor(c) == c.call = "create" /\ c.active
IsFill(c) == c.call = "create" /\ ~ c.active

\* C1: while a restore with closeCurrentTabs = true is in progress, and when
\* it has ended, the window holds at least one tab.
C1_WindowNeverEmpty ==
  /\ \A p \in Procs : InFlight(p) /\ IsRestore(loc[p], TRUE) => Len(window) >= 1
  /\ IsRestore(last.req, TRUE) => Len(window) >= 1

\* a restore of a session with one safe tab has closed every tab that was
\* open before: its anchor is the only tab of the window
C1_Witness ==
  \E p \in Procs :
    /\ pc[p] = "restore_set"
    /\ IsRestore(loc[p], TRUE)
    /\ Len(loc[p].tabs) = 1
    /\ Len(window) = 1
    /\ loc[p].preWindow # <<>>
    /\ TabIds(window) \cap TabIds(loc[p].preWindow) = {}

\* the host calls of a restore with close, in the order they completed: a
\* removal comes after a successful creation of the anchor, a creation of a
\* remaining tab after a successful removal
OrderedPhases(log) ==
  /\ \A j \in 1..Len(log) :
       log[j].call = "remove" => \E i \in 1..(j - 1) : IsAnchor(log[i]) /\ log[i].ok
  /\ \A k \in 1..Len(log) :
       IsFill(log[k]) => \E j \in 1..(k - 1) : log[j].call = "remove" /\ log[j].ok

\* C2: in a restore with closeCurrentTabs = true the anchor is created before
\* any tab is removed, and the removal is over before any remaining tab is
\* created.
C2_PhasesOrdered ==
  /\ \A p \in Procs : IsRestore(loc[p], TRUE) => OrderedPhases(loc[p].log)
  /\ IsRestore(last.req, TRUE) => OrderedPhases(last.req.log)

C2_Witness ==
  /\ last.success
  /\ IsRestore(last.req, TRUE)
  /\ Len(last.req.log) >= 3
  /\ last.req.log[2].call = "remove" /\ last.req.log[2].ids # {}
  /\ IsFill(last.req.log[3])

AnchorFailed(r) ==
  /\ IsRestore(r.req, TRUE)
  /\ Len(r.req.log) >= 1
  /\ IsAnchor(r.req.log[1]) /\ ~ r.req.log[1].ok

\* C3: when the creation of the anchor fails, the restore fails, it makes no
\* other host call (no tab removed, no other tab created), and the window and
\* the store, the Active Session Pointer included, are as they were.
C3_AnchorFailureAborts ==
  AnchorFailed(last) =>
    /\ ~ last.success
    /\ Len(last.req.log) = 1
    /\ window = last.req.preWindow
    /\ storage = last.req.preStorage

C3_Witness ==
  /\ AnchorFailed(last)
  /\ ~ last.success
  /\ Len(last.req.preWindow) >= 2
  /\ "activeSessionId" \in storage.has

\* C4: after a successful restore with close the window holds exactly the
\* safe tabs of the session, in order and once each, and none of the tabs
\* open before; no remaining tab is created while a tab open before is still
\* there.
C4_WindowReplaced ==
  /\ last.success /\ IsRestore(last.req, TRUE) =>
       /\ urlsOf(window) = urlsOf(safeTabsOf(StoredTabs(last.req)))
       /\ TabIds(window) \cap TabIds(last.req.preWindow) = {}
       /\ Cardinality(TabIds(window)) = Len(window)
  /\ \A l \in {loc[p] : p \in Procs} \cup {last.req} :
       IsRestore(l, TRUE) /\ (\E k \in 1..Len(l.log) : IsFill(l.log[k]))
         => TabIds(window) \cap TabIds(l.preWindow) = {}

\* the session [A, B, C] restored over a window of two tabs
C4_Witness ==
  /\ last.success
  /\ IsRestore(last.req, TRUE)
  /\ Len(last.req.preWindow) = 2
  /\ urlsOf(window) = <<UrlA, UrlB, UrlC>>

\* C5: a successful restore leaves the Active Session Pointer at the id and
\* answers skipped = stored tabs - safe stored tabs; the restore of a session
\* without a safe tab fails and changes neither the window nor the store.
C5_RestoreResult ==
  /\ last.success /\ last.req.action = "restoreSession" =>
       /\ getActiveSessionId(storage) = SomeId(last.req.sessionId)
       /\ last.skipped = Len(StoredTabs(last.req)) - NumSafe(StoredTabs(last.req))
  /\ ( /\ last.req.action = "restoreSession"
       /\ Known(last.req)
       /\ NumSafe(StoredTabs(last.req)) = 0 ) =>
       /\ ~ last.success
       /\ last.req.log = <<>>
       /\ window = last.req.preWindow
       /\ storage = last.req.preStorage

\* a session with an unsafe stored tab is restored: one tab is skipped
C5_Witness ==
  /\ last.success
  /\ last.req.action = "restoreSession"
  /\ last.skipped = 1
  /\ Len(StoredTabs(last.req)) = 2

\* C6: a restore with closeCurrentTabs = false removes no tab and leaves the
\* tabs open before where they were, creates no tab as the foreground tab,
\* and, when it succeeds, has added one tab per safe stored tab, in stored
\* order.
C6_KeepCurrentTabs ==
  IsRestore(last.req, FALSE) =>
    /\ Len(window) >= Len(last.req.preWindow)
    /\ SubSeq(window, 1, Len(last.req.preWindow)) = last.req.preWindow
    /\ \A i \in 1..Len(last.req.log) : IsFill(last.req.log[i])
    /\ last.success =>
         urlsOf(SubSeq(window, Len(last.req.preWindow) + 1, Len(window)))
           = urlsOf(safeTabsOf(StoredTabs(last.req)))

C6_Witness ==
  /\ last.success
  /\ IsRestore(last.req, FALSE)
  /\ Len(last.req.tabs) >= 2
  /\ Len(window) = Len(last.req.preWindow) + Len(last.req.tabs)

\* C7: a restore with closeCurrentTabs = false that reaches its batch issues
\* one create call per safe stored tab, whatever the host answers to the
\* others, and every accepted call has put its tab in the window.
C7_SiblingsStillCreated ==
  ( /\ IsRestore(last.req, FALSE)
    /\ Known(last.req)
    /\ NumSafe(StoredTabs(last.req)) > 0 ) =>
    /\ [i \in 1..Len(last.req.log) |-> last.req.log[i].url]
         = urlsOf(safeTabsOf(StoredTabs(last.req)))
    /\ \A i \in 1..Len(last.req.log) :
         last.req.log[i].ok =>
           \E k \in 1..Len(window) :
             /\ {window[k].id} = last.req.log[i].ids
             /\ window[k].url = last.req.log[i].url

\* the first call of the batch was rejected, the second one created its tab
C7_Witness ==
  /\ IsRestore(last.req, FALSE)
  /\ ~ last.success
  /\ Len(last.req.log) >= 2
  /\ ~ last.req.log[1].ok
  /\ last.req.log[2].ok
  /\ last.req.log[2].ids \subseteq TabIds(window)

\* C8: a successful delete removes exactly the session named; the Active
\* Session Pointer is cleared when it referenced that session and is left as
\* it was otherwise; the getSessions that follows the delete of the active
\* session answers activeSessionId = null.
C8_DeleteClearsPointer ==
  /\ last.success /\ last.req.action = "deleteSession" =>
       /\ Known(last.req)
       /\ readSessions(storage)
            = Without(readSessions(last.req.preStorage), last.req.sessionId)
       /\ IF getActiveSessionId(last.req.preStorage) = SomeId(last.req.sessionId)
          THEN getActiveSessionId(storage) = NoId
          ELSE getActiveSessionId(storage) = getActiveSessionId(last.req.preStorage)
  /\ last.success /\ last.req.action = "getSessions" /\ last.req.afterDelete # "" =>
       last.activeSessionId = NullId

C8_Witness ==
  /\ last.success
  /\ last.req.action = "getSessions"
  /\ last.req.afterDelete = "x1"
  /\ last.activeSessionId = NullId

\* the Active Session Pointer is absent or the id of a stored session
PointerValid(st) ==
  "activeSessionId" \in st.has => st.activeSessionId \in Keys(readSessions(st))

PayloadKeys(data) == {data.entries[i].key : i \in 1..Len(data.entries)}

\* C10: after an import every stored record whose id the import file carries
\* too is the record that was stored before, and such an entry is not counted:
\* imported is at most the number of ids of the file the store did not have.
C10_ImportNeverOverwrites ==
  last.success /\ last.req.action = "importSessions" =>
    /\ \A id \in Keys(readSessions(last.req.preStorage)) :
         /\ id \in Keys(readSessions(storage))
         /\ readSessions(storage)[id] = readSessions(last.req.preStorage)[id]
    /\ last.imported <=
         Cardinality(PayloadKeys(last.req.data) \ Keys(readSessions(last.req.preStorage)))
    /\ PayloadKeys(last.req.data) \subseteq Keys(readSessions(last.req.preStorage))
         => last.imported = 0

\* the file carries a record for x1 that differs from the stored one, and a
\* new session
C10_Witness ==
  /\ last.success
  /\ last.req.action = "importSessions"
  /\ last.imported = 1
  /\ \E i \in 1..Len(last.req.data.entries) :
       LET e == last.req.data.entries[i]
       IN /\ e.key \in Keys(readSessions(last.req.preStorage))
          /\ e.value.name.v # readSessions(last.req.preStorage)[e.key].name

\* ------------------------------------------------------------------------
\* Import files
\* ------------------------------------------------------------------------
\* data is an object whose sessions property is a mapping
IsMapping(data) == data.t = "object" /\ data.st = "object"

\* the record is an object with a string id, a string name, a number
\* createdAt and an array of tabs
WellFormed(value) ==
  /\ value.kind = "object"
  /\ value.id.t = "string"
  /\ value.name.t = "string"
  /\ value.createdAt.t = "number"
  /\ value.tabs.t = "array"

NewEntries(l) ==
  {i \in 1..Len(l.data.entries) : l.data.entries[i].key \notin Keys(readSessions(l.preStorage))}

\* C11: an import of a file that maps ids to records succeeds whatever the
\* records are; of the records whose id the store does not have, exactly the
\* well-formed ones are stored afterwards, and imported is their number.
C11_InvalidRecordSkipped ==
  last.req.action = "importSessions" /\ IsMapping(last.req.data) =>
    /\ last.success
    /\ \A i \in NewEntries(last.req) :
         LET e == last.req.data.entries[i]
         IN e.key \in Keys(readSessions(storage)) <=> WellFormed(e.value)
    /\ last.imported =
         Cardinality(Keys(readSessions(storage)) \ Keys(readSessions(last.req.preStorage)))

\* C12: an import whose data is missing or no object, or whose sessions is
\* missing, null or no mapping, is answered with the invalid-format error and
\* leaves the store as it was.
C12_InvalidShapeRejected ==
  last.req.action = "importSessions" /\ ~ IsMapping(last.req.data) =>
    /\ ~ last.success
    /\ last.error = "Invalid import file format."
    /\ storage = last.req.preStorage

\* the URLs among those of the model that the filter is to let through
SafeUrls == {UrlA, UrlB, UrlC}
SafeOnly(tabs) == SelectSeq(tabs, LAMBDA tab : tab.url \in SafeUrls)

\* the import of the export file into a store without sessions has answered
RoundTrip ==
  /\ file # NoFile
  /\ last.req.action = "importSessions"
  /\ last.req.data = file.data
  /\ Keys(readSessions(last.req.preStorage)) = {}

\* C13: importing an export file into a store without sessions succeeds and
\* stores, under the same ids, the sessions the file was made from, with the
\* same id, name and createdAt and with those of their tabs that are safe, in
\* order; imported is the number of sessions exported.
C13_RoundTripReproduces ==
  RoundTrip =>
    /\ last.success
    /\ Keys(readSessions(storage)) = Keys(file.source)
    /\ \A id \in Keys(file.source) :
         LET was == file.source[id]
             is == readSessions(storage)[id]
         IN /\ is.id = was.id
            /\ is.name = was.name
            /\ is.createdAt = was.createdAt
            /\ is.tabs = SafeOnly(was.tabs)
    /\ last.imported = Cardinality(Keys(file.source))

\* two sessions went through the file, one of them with an unsafe tab
C13_Witness ==
  /\ RoundTrip
  /\ last.success
  /\ last.imported = 2
  /\ \E id \in Keys(file.source) :
       /\ Len(SafeOnly(file.source[id].tabs)) < Len(file.source[id].tabs)
       /\ Len(readSessions(storage)[id].tabs) > 0

\* C14: every stored record carries as its id the key it is stored under, so
\* no two records carry the same id.
C14_IdIsKey ==
  LET sessions == readSessions(storage)
  IN /\ \A id \in Keys(sessions) : sessions[id].id = id
     /\ \A j, k \in Keys(sessions) : sessions[j].id = sessions[k].id => j = k

\* ------------------------------------------------------------------------
\* What the operations on one session leave alone
\* ------------------------------------------------------------------------
Spaces(n) == [i \in 1..n |-> " "]
IsBlank(s) == \A i \in 1..Len(s) : s[i] = " "

\* r is s without the spaces it begins and ends with
IsTrimOf(r, s) ==
  /\ \E i, j \in 0..Len(s) : s = Spaces(i) \o r \o Spaces(j)
  /\ r = <<>> \/ (r[1] # " " /\ r[Len(r)] # " ")

\* the sessions other than that of the request are stored as before
OthersKept(l) ==
  \A id \in Keys(readSessions(l.preStorage)) \ {l.sessionId} :
    /\ id \in Keys(readSessions(storage))
    /\ readSessions(storage)[id] = readSessions(l.preStorage)[id]

PointerKept(l) == getActiveSessionId(storage) = getActiveSessionId(l.preStorage)

\* C15: a rename with a name that is not blank sets the name of the session
\* to the name without its surrounding spaces and changes neither its id,
\* createdAt or tabs, nor another session, nor the pointer; a rename with a
\* blank name fails and leaves the store as it was.
C15_RenameOnlyName ==
  last.req.action = "renameSession" =>
    IF IsBlank(last.req.name.s)
    THEN ~ last.success /\ storage = last.req.preStorage
    ELSE Known(last.req) =>
           LET was == readSessions(last.req.preStorage)[last.req.sessionId]
               is == readSessions(storage)[last.req.sessionId]
           IN /\ last.success
              /\ Keys(readSessions(storage)) = Keys(readSessions(last.req.preStorage))
              /\ IsTrimOf(is.name, last.req.name.s)
              /\ is = [was EXCEPT !.name = is.name]
              /\ OthersKept(last.req)
              /\ PointerKept(last.req)

\* a session has been renamed to a name that was typed with a trailing space,
\* beside another session
C15_Witness ==
  /\ last.success
  /\ last.req.action = "renameSession"
  /\ readSessions(storage)[last.req.sessionId].name # last.req.name.s
  /\ readSessions(storage)[last.req.sessionId].name
       # readSessions(last.req.preStorage)[last.req.sessionId].name
  /\ Cardinality(Keys(readSessions(storage))) > 1

\* the URLs of tabs, in order
UrlSeq(tabs) == [i \in 1..Len(tabs) |-> tabs[i].url]

\* C16: an update of a stored session, when the window has a safe tab, sets
\* the tabs of the session to the safe tabs of the window in window order and
\* changes neither its id, createdAt or name, nor another session, nor the
\* pointer; when the window has no safe tab it fails and leaves the store,
\* the tabs of the session with it, as it was.
C16_UpdateOnlyTabs ==
  last.req.action = "updateSession" /\ Known(last.req) =>
    IF SafeOnly(last.req.preWindow) = <<>>
    THEN ~ last.success /\ storage = last.req.preStorage
    ELSE LET was == readSessions(last.req.preStorage)[last.req.sessionId]
             is == readSessions(storage)[last.req.sessionId]
         IN /\ last.success
            /\ Keys(readSessions(storage)) = Keys(readSessions(last.req.preStorage))
            /\ UrlSeq(is.tabs) = UrlSeq(SafeOnly(last.req.preWindow))
            /\ is = [was EXCEPT !.tabs = is.tabs]
            /\ OthersKept(last.req)
            /\ PointerKept(last.req)

\* a session has been updated from a window with a safe and an unsafe tab,
\* beside another session
C16_Witness ==
  /\ last.success
  /\ last.req.action = "updateSession"
  /\ UrlSeq(readSessions(storage)[last.req.sessionId].tabs) = <<UrlA>>
  /\ Len(last.req.preWindow) = 2
  /\ readSessions(last.req.preStorage)[last.req.sessionId].tabs
       # readSessions(storage)[last.req.sessionId].tabs
  /\ Cardinality(Keys(readSessions(storage))) > 1

\* C17: a create with a name that is not blank, when the window has a safe
\* tab, adds one session under an id the store did not have, with the name
\* without its surrounding spaces and with the safe tabs of the window in
\* window order (of https://a.com and chrome://settings the first alone), and
\* changes neither a stored session nor the pointer; a create with a blank
\* name or without a safe tab in the window fails and leaves the store as it
\* was.
C17_CreateStoresSafeTabs ==
  last.req.action = "saveSession" =>
    IF IsBlank(last.req.name.s) \/ SafeOnly(last.req.preWindow) = <<>>
    THEN ~ last.success /\ storage = last.req.preStorage
    ELSE LET was == readSessions(last.req.preStorage)
             is == readSessions(storage)
         IN /\ last.success
            /\ \E id \in Keys(is) \ Keys(was) :
                 /\ Keys(is) = Keys(was) \cup {id}
                 /\ is[id].id = id
                 /\ IsTrimOf(is[id].name, last.req.name.s)
                 /\ UrlSeq(is[id].tabs) = UrlSeq(SafeOnly(last.req.preWindow))
            /\ OthersKept(last.req)
            /\ PointerKept(last.req)

\* a session has been created from the window of https://a.com and
\* chrome://settings, beside a stored session the pointer references
C17_Witness ==
  /\ last.success
  /\ last.req.action = "saveSession"
  /\ UrlSeq(last.req.preWindow) = <<UrlA, UrlSettings>>
  /\ \E id \in Keys(readSessions(storage)) \ Keys(readSessions(last.req.preStorage)) :
       UrlSeq(readSessions(storage)[id].tabs) = <<UrlA>>
  /\ getActiveSessionId(storage) = SomeId("x1")

\* C18: an update, a rename, a delete or a restore that names a session the
\* store does not have fails and leaves the store, the pointer with it, and
\* the window as they were; the error is the not-found one, but for a rename
\* to a blank name, which is refused for the name before the store is read.
C18_UnknownIdFails ==
  /\ last.req.action \in {"updateSession", "renameSession", "deleteSession", "restoreSession"}
  /\ ~ Known(last.req)
  => /\ ~ last.success
     /\ \/ last.error = "Session not found."
        \/ /\ last.req.action = "renameSession"
           /\ IsBlank(last.req.name.s)
           /\ last.error = "Session name cannot be empty."
     /\ storage = last.req.preStorage
     /\ window = last.req.preWindow

\* a delete that names no stored session has been refused, the store holding
\* sessions and the pointer
C18_Witness ==
  /\ ~ last.success
  /\ last.req.action = "deleteSession"
  /\ last.req.sessionId = MissingId
  /\ last.error = "Session not found."
  /\ Keys(readSessions(storage)) # {}
  /\ getActiveSessionId(storage) # NoId

\* ------------------------------------------------------------------------
\* The cards of the popup
\* ------------------------------------------------------------------------
\* the card shows the session as the one open in the window
Matches(card) == card.isClean \/ card.isExact

StoredUrls(session) == {session.tabs[i].url : i \in 1..Len(session.tabs)}

\* C19: in the popup a session whose stored URLs are, as a set, the URLs of
\* the tabs of the window is shown as matching, whatever the order of its
\* tabs and however often a URL occurs among them.
C19_SetEqualityMatches ==
  popup.loaded =>
    \A id \in Keys(popup.allSessions) :
      StoredUrls(popup.allSessions[id]) = popup.currentUrlSet => Matches(popup.cards[id])

\* C20: when the pointer references a session whose stored URLs are those of
\* the window, its card is Clean and the card of every other session with
\* the same URLs is Exact; no card is more than one of Clean, Modified and
\* Exact (Inactive being none of them); the card of a session without tabs is
\* neither Clean nor Exact.
C20_Classification ==
  popup.loaded =>
    /\ \A id \in Keys(popup.allSessions) :
         /\ popup.currentActiveSessionId = SomeId(id)
         /\ StoredUrls(popup.allSessions[id]) = popup.currentUrlSet
         => /\ popup.cards[id].isClean
            /\ \A other \in Keys(popup.allSessions) \ {id} :
                 StoredUrls(popup.allSessions[other]) = popup.currentUrlSet
                   => popup.cards[other].isExact /\ ~ popup.cards[other].isClean
    /\ \A id \in Keys(popup.allSessions) :
         LET card == popup.cards[id]
         IN /\ ~ (card.isClean /\ card.isModified)
            /\ ~ (card.isClean /\ card.isExact)
            /\ ~ (card.isModified /\ card.isExact)
            /\ popup.allSessions[id].tabs = <<>> => ~ card.isClean /\ ~ card.isExact

\* ------------------------------------------------------------------------
\* Two handlers between read and write
\* ------------------------------------------------------------------------
\* handler p is about to write a collection it read before the session that
\* the create answered last has been stored
ReadBefore(p) ==
  /\ last.success
  /\ last.req.action = "saveSession"
  /\ pc[p] \in {"save_write", "rename_write"}
  /\ last.req.id \notin Keys(loc[p].sessions)

\* C21: when a create has reported success and a create or a rename that
\* read the collection before that create wrote it writes in its turn, it
\* reports success as well and the stored collection no longer holds the
\* session of the first create.
C21_LostUpdate ==
  [][\A p \in Procs :
       ReadBefore(p) /\ pc'[p] = "idle" =>
         /\ last'.success
         /\ last'.req.action = loc[p].action
         /\ last.req.id \in Keys(readSessions(storage))
         /\ last.req.id \notin Keys(readSessions(storage'))]_vars

\* two creates have both been answered; the store holds the session of the
\* second alone
C21_Witness ==
  /\ AllIdle
  /\ nUuid = 2
  /\ last.success
  /\ last.req.action = "saveSession"
  /\ last.req.id = UuidPool[2]
  /\ UuidPool[1] \notin Keys(readSessions(storage))
  /\ UuidPool[2] \in Keys(readSessions(storage))

\* ------------------------------------------------------------------------
\* The safe-filter
\* ------------------------------------------------------------------------
\* the schemes the filter is to refuse
RefusedPrefixes ==
  { <<"c", "h", "r", "o", "m", "e", ":", "/", "/">>,
    <<"c", "h", "r", "o", "m", "e", "-", "e", "x", "t", "e", "n", "s", "i", "o", "n", ":", "/", "/">>,
    <<"a", "b", "o", "u", "t", ":">>,
    <<"e", "d", "g", "e", ":", "/", "/">>,
    <<"b", "r", "a", "v", "e", ":", "/", "/">>,
    <<"j", "a", "v", "a", "s", "c", "r", "i", "p", "t", ":">>,
    <<"d", "a", "t", "a", ":">> }

BeginsWith(s, prefix) ==
  Len(s) >= Len(prefix) /\ \A i \in 1..Len(prefix) : s[i] = prefix[i]

\* a non-empty string that begins with none of the refused schemes
Acceptable(url) ==
  /\ url.t = "string"
  /\ url.s # <<>>
  /\ \A prefix \in RefusedPrefixes : ~ BeginsWith(url.s, prefix)

AcceptableUrls(tabs) == UrlSeq(SelectSeq(tabs, LAMBDA tab : Acceptable(tab.url)))

\* C22: of every list of tabs the filter of create and update, the filter of
\* restore and the filter of import keep the same tabs, those whose URL is a
\* non-empty string that begins with none of the refused schemes, and each
\* of them keeps all of what it has kept when it is applied again.
C22_SameFilterEverywhere ==
  filtered.done =>
    /\ UrlSeq(filtered.captured) = AcceptableUrls(filtered.tabs)
    /\ UrlSeq(filtered.restored) = AcceptableUrls(filtered.tabs)
    /\ UrlSeq(filtered.imported) = AcceptableUrls(filtered.tabs)
    /\ filtered.capturedAgain = filtered.captured
    /\ filtered.restoredAgain = filtered.restored
    /\ filtered.importedAgain = filtered.imported

\* a list of a web page and a tab without URL has been filtered
C22_Witness ==
  /\ filtered.done
  /\ Len(filtered.tabs) = 2
  /\ filtered.tabs[2].url = Undefined
  /\ UrlSeq(filtered.imported) = <<UrlA>>
  /\ UrlSeq(filtered.capturedAgain) = <<UrlA>>

\* the ids create gives its sessions
CreatedIds == {UuidPool[i] : i \in 1..Len(UuidPool)}

\* C23: in a store that only these handlers have written every tab of every
\* session has a URL the filter accepts; a session that create has made has
\* a tab, and so has the session an update has just written; a session
\* without tabs, which only an import can have stored, is refused by restore
\* as having no restorable tabs.
C23_StoredTabsSafe ==
  LET sessions == readSessions(storage)
  IN /\ \A id \in Keys(sessions) :
          \A i \in 1..Len(sessions[id].tabs) : Acceptable(sessions[id].tabs[i].url)
     /\ \A id \in Keys(sessions) \cap CreatedIds : Len(sessions[id].tabs) >= 1
     /\ last.success /\ last.req.action = "updateSession" =>
          Len(sessions[last.req.sessionId].tabs) >= 1
     /\ ( /\ last.req.action = "restoreSession"
          /\ Known(last.req)
          /\ StoredTabs(last.req) = <<>> )
        => /\ ~ last.success
           /\ last.error = "No restorable tabs in this session."
           /\ storage = last.req.preStorage
           /\ window = last.req.preWindow

\* an import has stored a session without tabs and the restore of it has
\* been refused
C23_Witness ==
  /\ last.req.action = "restoreSession"
  /\ ~ last.success
  /\ last.error = "No restorable tabs in this session."
  /\ last.req.sessionId \in Keys(readSessions(storage))
  /\ readSessions(storage)[last.req.sessionId].tabs = <<>>
  /\ last.req.sessionId \notin CreatedIds

\* ------------------------------------------------------------------------
\* What restore, getSessions and exportSessions write
\* ------------------------------------------------------------------------
\* a host call of the handler was rejected
SomeCallFailed(l) == \E i \in 1..Len(l.log) : ~ l.log[i].ok

\* C24: while a restore is in flight the store is as the restore found it;
\* a restore one of whose tab calls was rejected, the anchor, the removal or
\* a creation of either batch, reports failure and leaves the store, the
\* Active Session Pointer with it, as it was; a restore that reports success
\* has had every call accepted and has set the pointer to its session.
C24_PointerSetLast ==
  /\ \A p \in Procs :
       pc[p] # "idle" /\ loc[p].action = "restoreSession" => storage = loc[p].preStorage
  /\ last.req.action = "restoreSession" =>
       /\ SomeCallFailed(last.req) =>
            ~ last.success /\ storage = last.req.preStorage
       /\ last.success =>
            /\ ~ SomeCallFailed(last.req)
            /\ storage = setActiveSessionId(last.req.preStorage, last.req.sessionId)

\* a restore with close has failed in the batch after the removal: the
\* anchor is open, the tabs open before are closed, and the pointer, which
\* was absent, is absent still
C24_Witness ==
  /\ IsRestore(last.req, TRUE)
  /\ ~ last.success
  /\ Len(last.req.log) >= 3
  /\ last.req.log[1].ok
  /\ last.req.log[2].ok
  /\ SomeCallFailed(last.req)
  /\ TabIds(window) \cap TabIds(last.req.preWindow) = {}
  /\ window # <<>>
  /\ getActiveSessionId(last.req.preStorage) = NoId
  /\ getActiveSessionId(storage) = NoId

\* C25: after a restore, a getSessions or an exportSessions, answered with
\* success or failure, the store holds the collection it held before; a
\* getSessions or an exportSessions leaves the whole store as it was, and a
\* restore changes at most the Active Session Pointer, to its session.
C25_ReadersNeverWrite ==
  last.req.action \in {"restoreSession", "getSessions", "exportSessions"} =>
    /\ readSessions(storage) = readSessions(last.req.preStorage)
    /\ ("sessions" \in storage.has) = ("sessions" \in last.req.preStorage.has)
    /\ last.req.action # "restoreSession" => storage = last.req.preStorage
    /\ last.req.action = "restoreSession" =>
         \/ storage = last.req.preStorage
         \/ /\ last.success
            /\ getActiveSessionId(storage) = SomeId(last.req.sessionId)

\* a session with an unsafe tab has been restored: the pointer is set and the
\* session is stored as it was
C25_Witness ==
  /\ last.success
  /\ last.req.action = "restoreSession"
  /\ last.skipped > 0
  /\ getActiveSessionId(last.req.preStorage) = NoId
  /\ getActiveSessionId(storage) = SomeId(last.req.sessionId)
  /\ Cardinality(Keys(readSessions(storage))) = 2

====
